---- MODULE Spec2Model ----
(***************************************************************************)
(* A model of the report rendering engine of services/exports.py:          *)
(* the font resolver (_ensure_font_registered), the column width           *)
(* allocator (_auto_col_widths), the single-dataset composer               *)
(* (dataframe_to_pdf_bytes) with its two exception handlers, and the       *)
(* multi-section composer (create_landscape_report).                       *)
(*                                                                         *)
(* Text is modelled by what the engine does with it: a string is measured  *)
(* (its stringWidth, a natural number), and reportlab's Paragraph either   *)
(* accepts its markup or raises ValueError on it.  A float width is an     *)
(* exact fraction [num, den].  doc.build either lays the elements out or   *)
(* raises LayoutError; which contents it rejects, and whether the message  *)
(* of a caught exception is itself text that Paragraph rejects, are        *)
(* attributes of the input (env), fixed for the whole call.                *)
(***************************************************************************)
EXTENDS Integers, Sequences, FiniteSets, TLC

VARIABLES
    \* process-wide font state (exports.py:42) and the file system it reads
    REGISTERED_FONT_NAME, fontFiles, corruptFonts, registered, fontRet,
    firstRet, freshAtLast, calls,
    \* one call of dataframe_to_pdf_bytes
    pc, title, df, env, font_name, elements, rows, col_widths, i, degraded,
    outcome, doc, pages, stamp, now, prev,
    \* one call of create_landscape_report
    rpc, rtitle, sections, renv, rsec, relements, rplans, routcome, rdoc, rpages,
    \* one call of _auto_col_widths
    wpc, wData, wAvail, wPrefer, wPlan,
    \* threads inside _ensure_font_registered
    tpc, tfound, tret,
    \* one cell on its way from the dataset into a table
    spc, sRaw, sValue, shaper, sShaped, sMeasured, sCell,
    \* one invocation of the page callback _on_page
    opc, oTitle, oShowDate, oHijri, oLogo, oPage, oDate, oCanvas, oDepth,
    \* the email_settings table, the scheduler and the callers of
    \* register_scheduler and save_email_settings
    db, jobs, started, cpc, ckind, cform, csettings,
    \* one run of send_all_reports
    mpc, mClasses, mDepts, mk, mProcessed, mAttempts, mDelivered

fontVars ==
    <<REGISTERED_FONT_NAME, fontFiles, corruptFonts, registered, fontRet, firstRet,
      freshAtLast, calls>>
pdfVars ==
    <<pc, title, df, env, font_name, elements, rows, col_widths, i, degraded, outcome, doc,
      pages, stamp, now, prev>>
repVars == <<rpc, rtitle, sections, renv, rsec, relements, rplans, routcome, rdoc, rpages>>
widthVars == <<wpc, wData, wAvail, wPrefer, wPlan>>
thrVars == <<tpc, tfound, tret>>
shapeVars == <<spc, sRaw, sValue, shaper, sShaped, sMeasured, sCell>>
pageVars == <<opc, oTitle, oShowDate, oHijri, oLogo, oPage, oDate, oCanvas, oDepth>>
schedVars == <<db, jobs, started, cpc, ckind, cform, csettings>>
mailVars == <<mpc, mClasses, mDepts, mk, mProcessed, mAttempts, mDelivered>>
vars == <<fontVars, pdfVars, repVars, widthVars, thrVars, shapeVars, pageVars, schedVars, mailVars>>

\* Python's None, where a string is expected
None == "<None>"

Min(a, b) == IF a < b THEN a ELSE b
Max(a, b) == IF a > b THEN a ELSE b

RECURSIVE SumSeq(_)
SumSeq(s) == IF s = <<>> THEN 0 ELSE Head(s) + SumSeq(Tail(s))

(***************************************************************************)
(* Bounds of the model                                                     *)
(***************************************************************************)
MaxRows == 201      \* rows of the dataset handed to dataframe_to_pdf_bytes
MaxCols == 1        \* columns of that dataset
MaxCalls == 3       \* calls of _ensure_font_registered in one run
MaxWCols == 4       \* columns of the data handed to _auto_col_widths alone
MaxWRows == 1       \* data rows of that data
MaxSections == 2    \* sections of one create_landscape_report call
MaxThreads == 2     \* threads inside _ensure_font_registered at once
MaxText == 2        \* code points of a cell's text
MaxClock == 1       \* ticks of the wall clock in one run
MaxLongRows == 302  \* data rows of the longest dataset of _auto_col_widths
MaxPageNo == 3      \* page numbers the page callback is invoked with
MaxCallers == 2     \* concurrent callers of register_scheduler / save_email_settings
MaxEntries == 2     \* classes, and departments, of one run of send_all_reports
RowsPerPage == 25   \* table rows the layout fits on one page

(***************************************************************************)
(* Font Resolver: exports.py:32-62                                         *)
(***************************************************************************)
FONT_CANDIDATES ==
    << "static/fonts/NotoNaskhArabic-Regular.ttf",
       "static/fonts/Amiri-Regular.ttf",
       "static/fonts/DejaVuSans.ttf",
       "/usr/share/fonts/truetype/noto/NotoNaskhArabic-Regular.ttf",
       "/usr/share/fonts/truetype/amiri/Amiri-Regular.ttf",
       "/usr/share/fonts/truetype/dejavu/DejaVuSans.ttf",
       "~/AppData/Local/Microsoft/Windows/Fonts/DejaVuSans.ttf" >>

CandidatePaths == {FONT_CANDIDATES[k] : k \in 1..Len(FONT_CANDIDATES)}

\* os.path.splitext(os.path.basename(path))[0]
FontNameOf(path) ==
    CASE path \in {FONT_CANDIDATES[1], FONT_CANDIDATES[4]} -> "NotoNaskhArabic-Regular"
      [] path \in {FONT_CANDIDATES[2], FONT_CANDIDATES[5]} -> "Amiri-Regular"
      [] OTHER -> "DejaVuSans"

\* the loop of lines 51-59 from candidate k on: the index of the first candidate
\* that exists and loads, 0 when there is none
RECURSIVE FirstExisting(_, _, _)
FirstExisting(k, files, corrupt) ==
    IF k > Len(FONT_CANDIDATES) THEN 0
    ELSE IF FONT_CANDIDATES[k] \in files THEN k
    ELSE FirstExisting(k + 1, files, corrupt)
RECURSIVE FirstUsable(_, _, _)
FirstUsable(k, files, corrupt) ==
    IF k > Len(FONT_CANDIDATES) THEN 0
    ELSE IF FONT_CANDIDATES[k] \in files /\ FONT_CANDIDATES[k] \notin corrupt THEN k
    ELSE FirstUsable(k + 1, files, corrupt)

\* `if REGISTERED_FONT_NAME:` (line 48): None and "" are falsy
Truthy(name) == name # None /\ name # ""

\* `global REGISTERED_FONT_NAME` and the assignments of lines 56 and 61: the
\* resolved name replaces the module-level cache
StoreLocalOnly(cached, name) == cached
StoreCache(cached, name) == name

\* the name one call returns, given the cache and the file system
ResolvedName(cached, files, corrupt) ==
    IF Truthy(cached) THEN cached
    ELSE IF FirstUsable(1, files, corrupt) = 0 THEN "Helvetica"
    ELSE FontNameOf(FONT_CANDIDATES[FirstUsable(1, files, corrupt)])

\* the registerFont calls one call makes (line 55), appended to the log
Registrations(cached, files, corrupt) ==
    IF Truthy(cached) \/ FirstUsable(1, files, corrupt) = 0 THEN <<>>
    ELSE <<FontNameOf(FONT_CANDIDATES[FirstUsable(1, files, corrupt)])>>

(***************************************************************************)
(* Threads inside _ensure_font_registered.  A thread is at line 48         *)
(* ("check"), in the loop of lines 51-55 ("scan"), at the assignment of    *)
(* line 56 or 61 ("store"), at the return of line 62 ("return"), or has    *)
(* returned ("done").  The interpreter may switch threads between any two  *)
(* of these.                                                               *)
(***************************************************************************)
Threads == 1..MaxThreads

ThreadsIdle ==
    /\ tpc = [t \in Threads |-> "idle"]
    /\ tfound = [t \in Threads |-> None]
    /\ tret = [t \in Threads |-> None]

\* the candidates whose TTFont(...) / registerFont(...) raises (lines 53-59):
\* the files that do not load; registering a name again is accepted
UnloadableOnceRegistered(corrupt, reg) ==
    corrupt \cup {p \in CandidatePaths : \E k \in 1..Len(reg) : reg[k] = FontNameOf(p)}
Unloadable(corrupt, reg) == corrupt

\* lines 48-49
ThrCheck(t) ==
    /\ tpc[t] = "check"
    /\ IF Truthy(REGISTERED_FONT_NAME)
       THEN /\ tret' = [tret EXCEPT ![t] = REGISTERED_FONT_NAME]
            /\ tpc' = [tpc EXCEPT ![t] = "done"]
       ELSE /\ tpc' = [tpc EXCEPT ![t] = "scan"]
            /\ UNCHANGED tret
    /\ UNCHANGED <<tfound, fontVars, pdfVars, repVars, widthVars, shapeVars, pageVars, schedVars, mailVars>>

\* lines 51-55: the loop up to the first registerFont that succeeds, or to its end
ThrScan(t) ==
    /\ tpc[t] = "scan"
    /\ LET k == FirstUsable(1, fontFiles, Unloadable(corruptFonts, registered)) IN
        IF k = 0
        THEN /\ tfound' = [tfound EXCEPT ![t] = "Helvetica"]
             /\ UNCHANGED registered
        ELSE /\ tfound' = [tfound EXCEPT ![t] = FontNameOf(FONT_CANDIDATES[k])]
             /\ registered' = Append(registered, FontNameOf(FONT_CANDIDATES[k]))
    /\ tpc' = [tpc EXCEPT ![t] = "store"]
    /\ UNCHANGED <<REGISTERED_FONT_NAME, fontFiles, corruptFonts, fontRet, firstRet,
                   freshAtLast, calls>>
    /\ UNCHANGED <<tret, pdfVars, repVars, widthVars, shapeVars, pageVars, schedVars, mailVars>>

\* line 56 with the return of line 57, or line 61
ThrStore(t) ==
    /\ tpc[t] = "store"
    /\ REGISTERED_FONT_NAME' = StoreCache(REGISTERED_FONT_NAME, tfound[t])
    /\ IF tfound[t] = "Helvetica"
       THEN tpc' = [tpc EXCEPT ![t] = "return"] /\ UNCHANGED tret
       ELSE /\ tpc' = [tpc EXCEPT ![t] = "done"]
            /\ tret' = [tret EXCEPT ![t] = tfound[t]]
    /\ UNCHANGED <<fontFiles, corruptFonts, registered, fontRet, firstRet, freshAtLast, calls>>
    /\ UNCHANGED <<tfound, pdfVars, repVars, widthVars, shapeVars, pageVars, schedVars, mailVars>>

\* line 62: return REGISTERED_FONT_NAME, read again from the module
ThrReturn(t) ==
    /\ tpc[t] = "return"
    /\ tret' = [tret EXCEPT ![t] = REGISTERED_FONT_NAME]
    /\ tpc' = [tpc EXCEPT ![t] = "done"]
    /\ UNCHANGED <<tfound, fontVars, pdfVars, repVars, widthVars, shapeVars, pageVars, schedVars, mailVars>>

(***************************************************************************)
(* Script Shaper and Cell Formatter: exports.py:21-29, 65-109              *)
(* A text is a sequence of code points.  A code point is a character and   *)
(* the form it is written in: "base" is the character itself; "isolated",  *)
(* "initial", "medial" and "final" are the Arabic Presentation Forms       *)
(* (U+FE70-U+FEFF) of an Arabic letter, which lie outside U+0600-U+06FF.   *)
(***************************************************************************)
Cp(ch, form) == [ch |-> ch, form |-> form]
LatinA == Cp("a", "base")              \* U+0061
Beh == Cp("beh", "base")               \* U+0628, joins on both sides
Seen == Cp("seen", "base")             \* U+0633, joins on both sides
ArabicThree == Cp("three", "base")     \* U+0663 ARABIC-INDIC DIGIT THREE
SyriacAlaph == Cp("alaph", "base")     \* U+0710, a joining letter outside U+0600-U+06FF

\* the display strings of cell values
RawCodePoints == {LatinA, Beh, Seen, ArabicThree, SyriacAlaph}
Texts == UNION {[1..n -> RawCodePoints] : n \in 0..MaxText}

\* a value of the dataset: a null (None, or NaN for a missing key or number)
\* or a value with its display string
Value(null, text) == [null |-> null, text |-> text]
Nulls == {Value("None", <<>>), Value("NaN", <<>>)}
RawValues == Nulls \cup {Value("no", t) : t \in Texts}

\* df.fillna("") (lines 187, 564): every null becomes ""
FillnaKeep(v) == v
Fillna(v) == IF v.null # "no" THEN Value("no", <<>>) ELSE v

\* str(v) (line 86): the literals "None" and "nan" for a null
NoneLiteral == <<Cp("N", "base"), Cp("o", "base"), Cp("n", "base"), Cp("e", "base")>>
NanLiteral == <<Cp("n", "base"), Cp("a", "base"), Cp("n", "base")>>
Str(v) ==
    CASE v.null = "None" -> NoneLiteral
      [] v.null = "NaN" -> NanLiteral
      [] OTHER -> v.text

\* str(cell or "") (line 121), the text _auto_col_widths measures
MeasuredText(cell) == IF cell = <<>> THEN <<>> ELSE cell

\* HAS_RTL_SHAPER is False ("absent"); the libraries are there ("ok"); they are
\* there and reshape or get_display raises on this text ("throws")
Shapers == {"absent", "ok", "throws"}
HAS_RTL_SHAPER(sh) == sh # "absent"

\* ARABIC_RE.search(text): some code point in U+0600-U+06FF
ARABIC_RE(text) ==
    \E k \in 1..Len(text) : text[k].form = "base" /\ text[k].ch \in {"beh", "seen", "three"}

\* arabic_reshaper.reshape(text): each Arabic letter becomes the presentation
\* form its neighbours call for; every other code point is kept
ArabicLetter(c) == c.form = "base" /\ c.ch \in {"beh", "seen"}
JoinForm(text, k) ==
    LET before == k > 1 /\ ArabicLetter(text[k - 1])
        after == k < Len(text) /\ ArabicLetter(text[k + 1])
    IN IF before /\ after THEN "medial"
       ELSE IF before THEN "final"
       ELSE IF after THEN "initial"
       ELSE "isolated"
ReshapeKeep(text) == text
Reshape(text) ==
    [k \in 1..Len(text) |->
        IF ArabicLetter(text[k]) THEN Cp(text[k].ch, JoinForm(text, k)) ELSE text[k]]

\* bidi.algorithm.get_display(text): the Unicode bidirectional algorithm on
\* letters (L), Arabic letters and their presentation forms (AL) and
\* Arabic-Indic digits (AN)
BidiClass(c) ==
    IF c.ch \in {"beh", "seen", "alaph"} THEN "AL" ELSE IF c.ch = "three" THEN "AN" ELSE "L"
BaseLevel(text) ==
    LET strong == {k \in 1..Len(text) : BidiClass(text[k]) \in {"L", "AL"}}
    IN IF strong = {} THEN 0
       ELSE IF BidiClass(text[CHOOSE k \in strong : \A j \in strong : k <= j]) = "L" THEN 0
       ELSE 1
Level(c, base) ==
    CASE BidiClass(c) = "AL" -> 1
      [] BidiClass(c) = "AN" -> 2
      [] OTHER -> IF base = 0 THEN 0 ELSE 2
\* rule L2 at one level: every maximal run of levels >= lvl is reversed
ReverseRuns(text, levels, lvl) ==
    [k \in 1..Len(text) |->
        IF levels[k] < lvl THEN text[k]
        ELSE LET lo == CHOOSE j \in 1..k :
                        /\ \A m \in j..k : levels[m] >= lvl
                        /\ (j = 1 \/ levels[j - 1] < lvl)
                 hi == CHOOSE j \in k..Len(text) :
                        /\ \A m \in k..j : levels[m] >= lvl
                        /\ (j = Len(text) \/ levels[j + 1] < lvl)
             IN text[lo + hi - k]]
GetDisplay(text) ==
    LET levels == [k \in 1..Len(text) |-> Level(text[k], BaseLevel(text))]
    IN ReverseRuns(ReverseRuns(text, levels, 2), levels, 1)

\* lines 75-76: except Exception: return text
OnShaperErrorDrop(text) == <<>>
OnShaperError(text) == text

\* lines 65-77
_shape_if_rtl(text, sh) ==
    IF text = <<>> THEN text
    ELSE IF ~ARABIC_RE(text) THEN text
    ELSE IF ~HAS_RTL_SHAPER(sh) THEN text
    ELSE IF sh = "throws" THEN OnShaperError(text)
    ELSE GetDisplay(Reshape(text))

\* lines 100-101
_is_arabic(text) == ARABIC_RE(text)

\* lines 104-109: the paragraph of a cell, its text and its style
_paragraphize(value, sh) ==
    LET s == _shape_if_rtl(value, sh)
    IN [text |-> s, style |-> IF _is_arabic(s) THEN "CellAR" ELSE "Cell"]

NoCell == [text |-> <<>>, style |-> "Cell"]

ShapeIdle ==
    /\ spc = "idle" /\ sValue = <<>> /\ shaper = "absent" /\ sShaped = <<>> /\ sCell = NoCell
    /\ sRaw = Value("no", <<>>) /\ sMeasured = <<>>

(***************************************************************************)
(* Column Width Allocator: exports.py:112-132                              *)
(* data is the header row followed by the data rows; a cell is the         *)
(* stringWidth of its text under the resolved font at the given size.      *)
(***************************************************************************)
MIN_W == 40
MAX_W == 240
MAX_W_PREFERRED == 320
pad == 12
SampleLimit == 301

\* sample_rows = data[:1] + data[1:301]
SampleAll(data) == data
SampleRows(data) == SubSeq(data, 1, Min(SampleLimit, Len(data)))

\* max_w[c] after the loop of lines 119-124: the largest stringWidth + pad
\* over the sample rows that have a column c, 0.0 when there is none
MaxColWidth(sample, c) ==
    LET ws == {sample[k][c] + pad : k \in {n \in 1..Len(sample) : c <= Len(sample[n])}}
    IN IF ws = {} THEN 0 ELSE CHOOSE m \in ws : \A w \in ws : w <= m

\* MAX_WS[c] (lines 126-128); prefer_wide_idx is {} for None and {k} for the
\* 0-based index k
MaxWsNoPrefer(c, num_cols, prefer) == MAX_W
MaxWs(c, num_cols, prefer) ==
    IF \E k \in prefer : 0 <= k /\ k < num_cols /\ k = c - 1
    THEN MAX_W_PREFERRED ELSE MAX_W

\* line 129: max(MIN_W, min(MAX_WS[i], max_w[i] or MIN_W))
ClampNoMin(cap, w) == Min(cap, IF w = 0 THEN MIN_W ELSE w)
Clamp(cap, w) == Max(MIN_W, Min(cap, IF w = 0 THEN MIN_W ELSE w))

RawWidths(data, prefer) ==
    LET sample == SampleRows(data)
        num_cols == Len(data[1])
    IN [c \in 1..num_cols |-> Clamp(MaxWs(c, num_cols, prefer), MaxColWidth(sample, c))]

\* line 130: total = sum(raw) or 1.0
TotalOfMeasured(data, raw) ==
    LET s == SumSeq([c \in 1..Len(data[1]) |-> MaxColWidth(SampleRows(data), c)])
    IN IF s = 0 THEN 1 ELSE s
Total(data, raw) ==
    LET s == SumSeq(raw) IN IF s = 0 THEN 1 ELSE s

\* lines 131-132: scale = avail_width / total; [w * scale for w in raw]
_auto_col_widths(data, avail_width, prefer) ==
    LET raw == RawWidths(data, prefer)
        total == Total(data, raw)
    IN [c \in 1..Len(raw) |-> [num |-> raw[c] * avail_width, den |-> total]]

(***************************************************************************)
(* Elements of a document (reportlab flowables)                            *)
(***************************************************************************)
Elem(kind, text, row) == [kind |-> kind, text |-> text, row |-> row, header |-> <<>>, rows |-> <<>>]
TitlePara(text) == Elem("title", text, 0)
Spacer == Elem("spacer", "", 0)
PageBreak == Elem("pagebreak", "", 0)
Para(text) == Elem("para", text, 0)
\* Paragraph(" | ".join(map(str, rows[i]))): the plain line of row r
RowLine(r) == Elem("rowline", "", r)
\* ("BACKGROUND", (0, 0), (-1, 0), "#003366") (lines 267, 596)
HeaderBackground == "#003366"
\* bg of lines 281-283 and 611-613 for the table row row_num >= 1
RowBackgroundFlat(row_num) == "#f8f9fa"
RowBackground(row_num) == IF row_num % 2 = 0 THEN "#f8f9fa" ELSE "#e9ecef"
\* the BACKGROUND of table rows 0..n, at positions 1..n+1
Backgrounds(n) ==
    [k \in 1..(n + 1) |-> IF k = 1 THEN HeaderBackground ELSE RowBackground(k - 1)]
\* the table built from a header row and data rows, with its default style
TableOf(headers, chunk_rows) ==
    [kind |-> "table", text |-> "", row |-> 0, header |-> headers, rows |-> chunk_rows,
     bg |-> Backgrounds(Len(chunk_rows))]

Tables(elems) == SelectSeq(elems, LAMBDA e : e.kind = "table")
HasTable(elems) == \E k \in 1..Len(elems) : elems[k].kind = "table"

(***************************************************************************)
(* Inputs of dataframe_to_pdf_bytes                                        *)
(***************************************************************************)
\* titles: None, a plain one, and one whose markup reportlab's paragraph
\* parser rejects (an unclosed tag)
Titles == {None, "Monthly Report", "<b>Monthly Report"}
MalformedMarkup(text) == text = "<b>Monthly Report"

HeaderNames == {"Name", "Title"}
\* the columns of a DataFrame: distinct names, in display order
ColumnSeqs ==
    {s \in UNION {[1..n -> HeaderNames] : n \in 0..MaxCols} :
        \A a, b \in 1..Len(s) : a # b => s[a] # s[b]}

\* a DataFrame: its columns, its number of rows (row r is the r-th record),
\* and badRow, the row one of whose cells holds malformed markup (0: none)
NoDf == [present |-> FALSE, columns |-> <<>>, nrows |-> 0, badRow |-> 0]
Datasets ==
    {NoDf} \cup
    UNION {{[present |-> TRUE, columns |-> c, nrows |-> n, badRow |-> b] :
                c \in ColumnSeqs, b \in {0, Min(1, n), n}} : n \in 0..MaxRows}

\* pandas accepts a DataFrame whose columns repeat a name
DuplicateColumns(columns) ==
    \E a, b \in 1..Len(columns) : a # b /\ columns[a] = columns[b]
DuplicateDatasets ==
    {[present |-> TRUE, columns |-> <<"Name", "Name">>, nrows |-> n, badRow |-> 0] :
        n \in 0..2}

\* which contents doc.build cannot lay out (LayoutError): none, any table of
\* this dataset, or anything at all
BuildFaults == {"none", "tables", "all"}

\* the library's behaviour on this input: build is the build fault, msgMarkup
\* says that str(e) of a caught exception is markup Paragraph rejects (the
\* message quotes the offending text or flowable), noFrameMap that the
\* installed pandas has no DataFrame.map (before 2.1), which is what
\* shaped[col].map is called on when col names several columns (line 86)
Envs == [build : BuildFaults, msgMarkup : BOOLEAN, noFrameMap : BOOLEAN]
NoFault == [build |-> "none", msgMarkup |-> FALSE, noFrameMap |-> FALSE]

\* DataFrame.empty: either axis has length 0; `df if df is not None else pd.DataFrame()`
IsEmptyRowsOnly(d) == ~d.present \/ d.nrows = 0
IsEmpty(d) == ~d.present \/ d.nrows = 0 \/ Len(d.columns) = 0

\* lines 186-188 and 85-86: _shape_df_for_rtl raises AttributeError
ShapeDfRaises(d, e) ==
    ~IsEmpty(d) /\ DuplicateColumns(d.columns) /\ e.noFrameMap

\* _shape_if_rtl(title or "") for a title without Arabic letters (lines 67-70, 190)
ShapedTitle(t) == IF t = None THEN "" ELSE t

\* stringWidth of a header and of the cells of row r
HeaderWidth(h) == IF h = "Title" THEN 25 ELSE 30
CellWidth(r, c) == IF r % 2 = 1 THEN 300 ELSE 0

\* data_str = [headers] + rows (lines 242-244), each cell by its measured width
DataStr(d) ==
    <<[c \in 1..Len(d.columns) |-> HeaderWidth(d.columns[c])]>>
    \o [r \in 1..d.nrows |-> [c \in 1..Len(d.columns) |-> CellWidth(r, c)]]

\* h.strip().lower()
StripLower(h) == CASE h = "Title" -> "title" [] h = "Name" -> "name" [] OTHER -> h

\* lines 247-252: the first header that names a title column, from index k on
RECURSIVE PreferIdx(_, _)
PreferIdx(headers, k) ==
    IF k > Len(headers) THEN {}
    ELSE IF StripLower(headers[k]) \in {"titles_ay", "title", "book_title", "titles"}
         THEN {k - 1}
    ELSE PreferIdx(headers, k + 1)

\* doc.width of landscape A4 with 2 cm side margins (lines 194-204), in points
AVAIL_LANDSCAPE == 728

chunk_size == 100
FallbackRows == 50

\* if i + chunk_size < len(rows) (line 295)
BreakAfterAlways(k, n) == TRUE
BreakAfter(k, n) == k + chunk_size < n

\* chunk = rows[i:i + chunk_size] (line 292)
ChunkDropFirst(rws, k) == SubSeq(rws, k + 2, Min(k + chunk_size, Len(rws)))
Chunk(rws, k) == SubSeq(rws, k + 1, Min(k + chunk_size, Len(rws)))

\* make_table_chunk raises when a cell of the chunk holds malformed markup
\* (_paragraphize -> Paragraph, line 259)
ChunkRaises(d, chunk) == \E k \in 1..Len(chunk) : chunk[k] = d.badRow

\* `elements = [...]` (lines 298, 310): the list built so far is dropped
AssignKeepOld(old, new) == old \o new
Assign(old, new) == new

\* lines 298-305: the three notices and the lines of the first n rows
ChunkFallbackElements(rws, n) ==
    <<Para("Error generating table:"), Para("str(e)"), Para("Partial data shown below:")>>
    \o [k \in 1..n |-> RowLine(rws[k])]
\* Paragraph(row_text) of a fallback line raises on the same malformed cell
FallbackRaises(d, rws) == \E k \in 1..Min(FallbackRows, Len(rws)) : rws[k] = d.badRow
\* the lines appended before the loop of lines 303-305 ends or raises
FallbackLines(d, rws) ==
    IF FallbackRaises(d, rws)
    THEN (CHOOSE k \in 1..Min(FallbackRows, Len(rws)) : rws[k] = d.badRow) - 1
    ELSE Min(FallbackRows, Len(rws))

\* lines 310-313
BuildFallbackElements ==
    <<Para("Report generation failed due to layout limits."), Para("str(e)")>>

BuildFails(elems, fault) == fault = "all" \/ (fault = "tables" /\ HasTable(elems))

(***************************************************************************)
(* doc.build: pages and page callbacks                                     *)
(***************************************************************************)
\* the pages a table runs over beyond the one it starts on
SpillPages(e) ==
    IF e.kind = "table" /\ Len(e.rows) > 0 THEN (Len(e.rows) - 1) \div RowsPerPage ELSE 0

\* the physical pages of a built document: one, one more for every PageBreak,
\* and the pages its tables spill onto
PageCount(elems) ==
    1 + Cardinality({k \in 1..Len(elems) : elems[k].kind = "pagebreak"})
      + SumSeq([k \in 1..Len(elems) |-> SpillPages(elems[k])])

\* the callbacks handed to doc.build: SimpleDocTemplate.build's defaults draw
\* nothing (line 308); _on_page is the decorator of lines 357-441
NoCallback == "_doNothing"
OnPage == "_on_page"
Decorations(callback) == IF callback = OnPage THEN 1 ELSE 0

\* doc.build(elements, onFirstPage, onLaterPages): for each page, how many
\* times the decorator has drawn on it
BuildPages(elems, onFirstPage, onLaterPages) ==
    [k \in 1..PageCount(elems) |->
        IF k = 1 THEN Decorations(onFirstPage) ELSE Decorations(onLaterPages)]

(***************************************************************************)
(* dataframe_to_pdf_bytes: exports.py:175-317                              *)
(***************************************************************************)
PdfIdle ==
    /\ pc = "idle" /\ title = None /\ df = NoDf /\ env = NoFault
    /\ font_name = None /\ elements = <<>> /\ rows = <<>> /\ col_widths = <<>>
    /\ i = 0 /\ degraded = FALSE /\ outcome = "none" /\ doc = <<>>
    /\ pages = <<>> /\ stamp = 0 /\ now = 0 /\ prev = <<>>

\* doc.build(elements) succeeded (lines 238, 308, 314): the bytes written
\* carry the pages and the creation date of the moment of the build
PdfReturn(elems) ==
    /\ pc' = "done" /\ outcome' = "returned" /\ doc' = elems
    /\ pages' = BuildPages(elems, NoCallback, NoCallback)
    /\ stamp' = now
PdfRaise == pc' = "done" /\ outcome' = "raised" /\ UNCHANGED <<doc, pages, stamp>>

\* lines 184-234: resolve the font, copy the dataset, build the title paragraph
PdfBegin ==
    /\ pc = "start"
    /\ font_name' = ResolvedName(REGISTERED_FONT_NAME, fontFiles, corruptFonts)
    /\ REGISTERED_FONT_NAME' = StoreCache(REGISTERED_FONT_NAME, font_name')
    /\ registered' = registered \o Registrations(REGISTERED_FONT_NAME, fontFiles, corruptFonts)
    /\ IF ShapeDfRaises(df, env) \/ MalformedMarkup(ShapedTitle(title))
       THEN PdfRaise /\ UNCHANGED elements
       ELSE /\ elements' = <<TitlePara(ShapedTitle(title)), Spacer>>
            /\ pc' = IF IsEmpty(df) THEN "empty" ELSE "widths"
            /\ UNCHANGED <<outcome, doc, pages, stamp>>
    /\ UNCHANGED <<title, df, env, rows, col_widths, i, degraded, now, prev>>
    /\ UNCHANGED <<fontFiles, corruptFonts, fontRet, firstRet, freshAtLast, calls>>
    /\ UNCHANGED <<repVars, widthVars, thrVars, shapeVars, pageVars, schedVars, mailVars>>

\* lines 236-240: the empty dataset
PdfEmpty ==
    /\ pc = "empty"
    /\ elements' = Append(elements, Para("No data available"))
    /\ IF BuildFails(elements', env.build) THEN PdfRaise ELSE PdfReturn(elements')
    /\ UNCHANGED <<title, df, env, font_name, rows, col_widths, i, degraded, now, prev>>
    /\ UNCHANGED <<fontVars, repVars, widthVars, thrVars, shapeVars, pageVars, schedVars, mailVars>>

\* lines 242-254: headers, rows, the preferred column and the width plan
PdfWidths ==
    /\ pc = "widths"
    /\ rows' = [r \in 1..df.nrows |-> r]
    /\ col_widths' = <<_auto_col_widths(DataStr(df), AVAIL_LANDSCAPE, PreferIdx(df.columns, 1))>>
    /\ i' = 0
    /\ pc' = "chunks"
    /\ UNCHANGED <<title, df, env, font_name, elements, degraded, outcome, doc, pages, stamp, now, prev>>
    /\ UNCHANGED <<fontVars, repVars, widthVars, thrVars, shapeVars, pageVars, schedVars, mailVars>>

\* lines 291-296: one iteration of the chunk loop
PdfChunk ==
    /\ pc = "chunks"
    /\ i < Len(rows)
    /\ IF ChunkRaises(df, Chunk(rows, i))
       THEN pc' = "chunk_except" /\ UNCHANGED <<elements, i>>
       ELSE /\ elements' = elements
                    \o <<TableOf(df.columns, Chunk(rows, i)), Spacer>>
                    \o (IF BreakAfter(i, Len(rows)) THEN <<PageBreak>> ELSE <<>>)
            /\ i' = i + chunk_size
            /\ pc' = IF i' < Len(rows) THEN "chunks" ELSE "build"
    /\ UNCHANGED <<title, df, env, font_name, rows, col_widths, degraded, outcome, doc, pages, stamp, now, prev>>
    /\ UNCHANGED <<fontVars, repVars, widthVars, thrVars, shapeVars, pageVars, schedVars, mailVars>>

\* lines 297-305: the handler of a failed chunk.  An exception inside the
\* handler leaves the function; when Paragraph(str(e)) raises, the list literal
\* of line 298 is never assigned.
PdfChunkExcept ==
    /\ pc = "chunk_except"
    /\ IF env.msgMarkup
       THEN PdfRaise /\ UNCHANGED <<elements, degraded>>
       ELSE /\ degraded' = TRUE
            /\ elements' = Assign(elements, ChunkFallbackElements(rows, FallbackLines(df, rows)))
            /\ IF FallbackRaises(df, rows)
               THEN PdfRaise
               ELSE pc' = "build" /\ UNCHANGED <<outcome, doc, pages, stamp>>
    /\ UNCHANGED <<title, df, env, font_name, rows, col_widths, i, now, prev>>
    /\ UNCHANGED <<fontVars, repVars, widthVars, thrVars, shapeVars, pageVars, schedVars, mailVars>>

\* lines 307-308: doc.build(elements)
PdfBuild ==
    /\ pc = "build"
    /\ IF BuildFails(elements, env.build)
       THEN pc' = "build_except" /\ UNCHANGED <<outcome, doc, pages, stamp>>
       ELSE PdfReturn(elements)
    /\ UNCHANGED <<title, df, env, font_name, elements, rows, col_widths, i, degraded, now, prev>>
    /\ UNCHANGED <<fontVars, repVars, widthVars, thrVars, shapeVars, pageVars, schedVars, mailVars>>

\* lines 309-317: the handler of a failed build, and the second build
PdfBuildExcept ==
    /\ pc = "build_except"
    /\ IF env.msgMarkup
       THEN PdfRaise /\ UNCHANGED <<elements, degraded>>
       ELSE /\ degraded' = TRUE
            /\ elements' = Assign(elements, BuildFallbackElements)
            /\ IF BuildFails(elements', env.build) THEN PdfRaise ELSE PdfReturn(elements')
    /\ UNCHANGED <<title, df, env, font_name, rows, col_widths, i, now, prev>>
    /\ UNCHANGED <<fontVars, repVars, widthVars, thrVars, shapeVars, pageVars, schedVars, mailVars>>

(***************************************************************************)
(* The page callback _on_page: exports.py:357-441                          *)
(***************************************************************************)
\* the hijri_converter library: converts, or is not installed, or rejects
\* the date
HijriLibs == {"ok", "import_error", "convert_error"}
\* _hijri_date_short (lines 138-149): any failure gives the Gregorian short date
_hijri_date_short(lib) == IF lib = "ok" THEN "05-01-47 H" ELSE "27-06-25"

\* logo_path: None, a path with no file, a file that is no image, an image
Logos == {"none", "missing", "unreadable", "image"}
\* lines 396-413: what becomes of the logo
LogoOutcomeUnguarded(logo) ==
    CASE logo \in {"none", "missing"} -> "omitted"
      [] logo = "unreadable" -> "raised"
      [] OTHER -> "drawn"
LogoOutcome(logo) ==
    CASE logo \in {"none", "missing"} -> "omitted"
      [] logo = "unreadable" -> "skipped"
      [] OTHER -> "drawn"

\* an operation on the canvas
Draw(op, text, n) == [op |-> op, text |-> text, n |-> n]

PageIdle ==
    /\ opc = "idle" /\ oTitle = "" /\ oShowDate = FALSE /\ oHijri = "ok" /\ oLogo = "none"
    /\ oPage = 0 /\ oDate = "" /\ oCanvas = <<>> /\ oDepth = 0

\* lines 358-367: saveState and the date of the header
OnPageBegin ==
    /\ opc = "start"
    /\ oDepth' = oDepth + 1
    /\ oCanvas' = oCanvas \o <<Draw("saveState", "", 0)>>
    /\ oDate' = IF oShowDate THEN _hijri_date_short(oHijri) ELSE ""
    /\ opc' = "header"
    /\ UNCHANGED <<oTitle, oShowDate, oHijri, oLogo, oPage>>
    /\ UNCHANGED <<fontVars, pdfVars, repVars, widthVars, thrVars, shapeVars, schedVars, mailVars>>

\* lines 369-393: header rule, title, date
OnPageHeader ==
    /\ opc = "header"
    /\ oCanvas' = oCanvas
            \o <<Draw("line", "header", 0), Draw("drawCentredString", oTitle, 0)>>
            \o (IF oDate # "" THEN <<Draw("drawRightString", oDate, 0)>> ELSE <<>>)
    /\ opc' = "logo"
    /\ UNCHANGED <<oTitle, oShowDate, oHijri, oLogo, oPage, oDate, oDepth>>
    /\ UNCHANGED <<fontVars, pdfVars, repVars, widthVars, thrVars, shapeVars, schedVars, mailVars>>

\* lines 395-413: the logo; an exception that leaves the try statement leaves
\* the callback
OnPageLogo ==
    /\ opc = "logo"
    /\ oCanvas' = oCanvas
            \o (IF LogoOutcome(oLogo) = "drawn" THEN <<Draw("drawImage", "logo", 0)>> ELSE <<>>)
    /\ opc' = IF LogoOutcome(oLogo) = "raised" THEN "raised" ELSE "footer"
    /\ UNCHANGED <<oTitle, oShowDate, oHijri, oLogo, oPage, oDate, oDepth>>
    /\ UNCHANGED <<fontVars, pdfVars, repVars, widthVars, thrVars, shapeVars, schedVars, mailVars>>

\* lines 415-441: footer rule, page number, timestamp, restoreState
OnPageFooter ==
    /\ opc = "footer"
    /\ oCanvas' = oCanvas
            \o <<Draw("line", "footer", 0), Draw("drawCentredString", "Page", oPage),
                 Draw("drawString", "timestamp", 0), Draw("restoreState", "", 0)>>
    /\ oDepth' = oDepth - 1
    /\ opc' = "done"
    /\ UNCHANGED <<oTitle, oShowDate, oHijri, oLogo, oPage, oDate>>
    /\ UNCHANGED <<fontVars, pdfVars, repVars, widthVars, thrVars, shapeVars, schedVars, mailVars>>

(***************************************************************************)
(* The report job: tasks/scheduler.py and routes/admin.py:228-257          *)
(* A caller is the start-up call of register_scheduler or a request to     *)
(* save_email_settings (which calls reload_scheduler).  SQLite serialises  *)
(* transactions and APScheduler takes its job store lock in get_job,       *)
(* remove_job and add_job, so each of these is one step; a caller may be   *)
(* preempted between any two of them.                                      *)
(***************************************************************************)
Callers == 1..MaxCallers

\* SQL NULL and Python None where an integer is expected
Null == -1
Frequencies == {"daily", "weekly", "monthly"}

\* a row of email_settings (appdata_init.py:112-120) without sender_email
Row(frequency, day_of_week, day_of_month, send_hour, send_minute) ==
    [frequency |-> frequency, day_of_week |-> day_of_week, day_of_month |-> day_of_month,
     send_hour |-> send_hour, send_minute |-> send_minute]

\* Python's `v or default` on an integer or None, and on a string or None
IntOr(v, default) == IF v = Null \/ v = 0 THEN default ELSE v
StrOr(v, default) == IF v = None \/ v = "" THEN default ELSE v

\* scheduler.py:10-40; db is <<>> or <<row>>
_get_email_settings(table) ==
    IF table # <<>>
    THEN Row(StrOr(table[1].frequency, "monthly"), StrOr(table[1].day_of_week, "mon"),
             IntOr(table[1].day_of_month, 1), IntOr(table[1].send_hour, 8),
             IntOr(table[1].send_minute, 0))
    ELSE Row("monthly", "mon", 1, 8, 0)

\* the cron trigger of add_job (lines 65-97); a field that is not given is
\* "*" (day_of_week) or 0 (day)
Trigger(day_of_week, day, hour, minute) ==
    [day_of_week |-> day_of_week, day |-> day, hour |-> hour, minute |-> minute]
CronTrigger(settings) ==
    CASE settings.frequency = "daily" ->
            Trigger("*", 0, settings.send_hour, settings.send_minute)
      [] settings.frequency = "weekly" ->
            Trigger(settings.day_of_week, 0, settings.send_hour, settings.send_minute)
      [] OTHER ->
            Trigger("*", settings.day_of_month, settings.send_hour, settings.send_minute)

\* request.form of save_email_settings (admin.py:232-237): a missing field is
\* None; send_hour and send_minute have the defaults 8 and 0
FormRow(form) ==
    Row(form.frequency, form.day_of_week, form.day_of_month,
        IF form.send_hour = Null THEN 8 ELSE form.send_hour,
        IF form.send_minute = Null THEN 0 ELSE form.send_minute)
\* the INSERT of lines 241-245 violates NOT NULL / CHECK of frequency
InsertFails(row) == row.frequency \notin Frequencies

NoForm == Row(None, None, Null, Null, Null)

SchedIdle ==
    /\ db = <<>> /\ jobs = <<>> /\ started = FALSE
    /\ cpc = [c \in Callers |-> "idle"]
    /\ ckind = [c \in Callers |-> "none"]
    /\ cform = [c \in Callers |-> NoForm]
    /\ csettings = [c \in Callers |-> NoForm]

\* admin.py:232-247: DELETE, INSERT, commit; an exception is caught at
\* line 255 and the uncommitted DELETE is rolled back with the connection
SaveEmailSettings(c) ==
    /\ cpc[c] = "start" /\ ckind[c] = "save"
    /\ IF InsertFails(FormRow(cform[c]))
       THEN cpc' = [cpc EXCEPT ![c] = "failed"] /\ UNCHANGED db
       ELSE cpc' = [cpc EXCEPT ![c] = "read"] /\ db' = <<FormRow(cform[c])>>
    /\ UNCHANGED <<jobs, started, ckind, cform, csettings>>
    /\ UNCHANGED <<fontVars, pdfVars, repVars, widthVars, thrVars, shapeVars, pageVars, mailVars>>

\* scheduler.py:104 and 113: settings = _get_email_settings()
GetEmailSettings(c) ==
    /\ cpc[c] = "read" \/ (cpc[c] = "start" /\ ckind[c] = "register")
    /\ csettings' = [csettings EXCEPT ![c] = _get_email_settings(db)]
    /\ cpc' = [cpc EXCEPT ![c] = "get_job"]
    /\ UNCHANGED <<db, jobs, started, ckind, cform>>
    /\ UNCHANGED <<fontVars, pdfVars, repVars, widthVars, thrVars, shapeVars, pageVars, mailVars>>

\* scheduler.py:57: if scheduler.get_job("library-report-job")
GetJob(c) ==
    /\ cpc[c] = "get_job"
    /\ cpc' = [cpc EXCEPT ![c] = IF jobs # <<>> THEN "remove_job" ELSE "add_job"]
    /\ UNCHANGED <<db, jobs, started, ckind, cform, csettings>>
    /\ UNCHANGED <<fontVars, pdfVars, repVars, widthVars, thrVars, shapeVars, pageVars, mailVars>>

\* scheduler.py:58: remove_job raises JobLookupError when the job is gone
RemoveJob(c) ==
    /\ cpc[c] = "remove_job"
    /\ IF jobs = <<>>
       THEN cpc' = [cpc EXCEPT ![c] = "failed"] /\ UNCHANGED jobs
       ELSE cpc' = [cpc EXCEPT ![c] = "add_job"] /\ jobs' = <<>>
    /\ UNCHANGED <<db, started, ckind, cform, csettings>>
    /\ UNCHANGED <<fontVars, pdfVars, repVars, widthVars, thrVars, shapeVars, pageVars, mailVars>>

\* scheduler.py:60-98: add_job(id="library-report-job", replace_existing=True)
AddJob(c) ==
    /\ cpc[c] = "add_job"
    /\ jobs' = <<CronTrigger(csettings[c])>>
    /\ cpc' = [cpc EXCEPT ![c] = IF ckind[c] = "register" THEN "start_scheduler" ELSE "done"]
    /\ UNCHANGED <<db, started, ckind, cform, csettings>>
    /\ UNCHANGED <<fontVars, pdfVars, repVars, widthVars, thrVars, shapeVars, pageVars, mailVars>>

\* scheduler.py:106: scheduler.start() raises SchedulerAlreadyRunningError on a
\* running scheduler
StartScheduler(c) ==
    /\ cpc[c] = "start_scheduler"
    /\ IF started
       THEN cpc' = [cpc EXCEPT ![c] = "failed"] /\ UNCHANGED started
       ELSE cpc' = [cpc EXCEPT ![c] = "done"] /\ started' = TRUE
    /\ UNCHANGED <<db, jobs, ckind, cform, csettings>>
    /\ UNCHANGED <<fontVars, pdfVars, repVars, widthVars, thrVars, shapeVars, pageVars, mailVars>>

(***************************************************************************)
(* Report dispatch: tasks/monthly_reports.py:400-509                       *)
(* An entry is a class or a department: the address found for it, what     *)
(* building its PDF does, and what mail.send does with its message.        *)
(***************************************************************************)
Entry(email, pdf, send) == [email |-> email, pdf |-> pdf, send |-> send]
Entries ==
    {Entry(None, "bytes", "ok"), Entry("", "bytes", "ok"),
     Entry("head@school", "raises", "ok"), Entry("head@school", "none", "ok"),
     Entry("head@school", "bytes", "fails"), Entry("head@school", "bytes", "ok")}
EntryLists == UNION {[1..n -> Entries] : n \in 0..MaxEntries}

\* lines 446-451 and 482-487: the handler of a failed PDF build
OnPdfErrorRaise == "raise"
OnPdfError == "continue"

\* one iteration of the loops of lines 437-465 and 476-498 on entry e:
\* "skip" (no address), "raise", "continue" (PDF failed or empty), or the
\* result of _send_email_with_pdf (lines 400-418), "sent" or "send_failed"
Dispatch(e) ==
    IF e.email = None \/ e.email = "" THEN "skip"
    ELSE IF e.pdf = "raises" THEN OnPdfError
    ELSE IF e.pdf = "none" THEN "continue"
    ELSE IF e.send = "fails" THEN "send_failed"
    ELSE "sent"

Item(list, k) == [list |-> list, k |-> k]

MailIdle ==
    /\ mpc = "idle" /\ mClasses = <<>> /\ mDepts = <<>> /\ mk = 0
    /\ mProcessed = <<>> /\ mAttempts = <<>> /\ mDelivered = <<>>

\* the state after one iteration on item `it` holding entry e
Iterate(it, e, next) ==
    /\ mProcessed' = Append(mProcessed, it)
    /\ mAttempts' = IF Dispatch(e) \in {"sent", "send_failed"}
                     THEN Append(mAttempts, it) ELSE mAttempts
    /\ mDelivered' = IF Dispatch(e) = "sent" THEN Append(mDelivered, it) ELSE mDelivered
    /\ IF Dispatch(e) = "raise"
       THEN mpc' = "raised" /\ UNCHANGED mk
       ELSE mpc' = next /\ mk' = mk + 1

\* send_class_reports, lines 437-465: one class
SendClassReport ==
    /\ mpc = "classes" /\ mk < Len(mClasses)
    /\ Iterate(Item("class", mk + 1), mClasses[mk + 1], "classes")
    /\ UNCHANGED <<mClasses, mDepts>>
    /\ UNCHANGED <<fontVars, pdfVars, repVars, widthVars, thrVars, shapeVars, pageVars, schedVars>>

\* send_all_reports, lines 506-507: send_department_reports follows
ClassReportsDone ==
    /\ mpc = "classes" /\ mk = Len(mClasses)
    /\ mpc' = "departments" /\ mk' = 0
    /\ UNCHANGED <<mClasses, mDepts, mProcessed, mAttempts, mDelivered>>
    /\ UNCHANGED <<fontVars, pdfVars, repVars, widthVars, thrVars, shapeVars, pageVars, schedVars>>

\* send_department_reports, lines 476-498: one department
SendDepartmentReport ==
    /\ mpc = "departments" /\ mk < Len(mDepts)
    /\ Iterate(Item("department", mk + 1), mDepts[mk + 1], "departments")
    /\ UNCHANGED <<mClasses, mDepts>>
    /\ UNCHANGED <<fontVars, pdfVars, repVars, widthVars, thrVars, shapeVars, pageVars, schedVars>>

\* send_all_reports, line 508
DepartmentReportsDone ==
    /\ mpc = "departments" /\ mk = Len(mDepts)
    /\ mpc' = "done"
    /\ UNCHANGED <<mClasses, mDepts, mk, mProcessed, mAttempts, mDelivered>>
    /\ UNCHANGED <<fontVars, pdfVars, repVars, widthVars, thrVars, shapeVars, pageVars, schedVars>>

(***************************************************************************)
(* create_landscape_report: exports.py:449-626                             *)
(***************************************************************************)
\* section['data']: None, a list of dicts ("records"), an empty list, a
\* DataFrame ("frame"), or anything else ("invalid").  The sections carry no
\* 'columns' and no 'table_style' key.
SectionRowCounts == {0, 1, chunk_size + 1}
SectionInputs ==
    {[title |-> "Summary", kind |-> k, columns |-> <<>>, nrows |-> 0, badRow |-> 0] :
        k \in {"none", "emptylist", "invalid"}}
    \cup
    {[title |-> "Details", kind |-> k, columns |-> <<"Name">>, nrows |-> n, badRow |-> b] :
        k \in {"records", "frame"}, n \in SectionRowCounts, b \in {0, 1}}

WellFormedSection(sec) ==
    /\ sec.badRow <= sec.nrows
    /\ (sec.kind = "records" => sec.nrows > 0)

SectionLists ==
    UNION {[1..n -> {sec \in SectionInputs : WellFormedSection(sec)}] : n \in 0..MaxSections}

\* doc.width of make_doc_with_header_footer's landscape page (lines 473-483)
RepAvail == AVAIL_LANDSCAPE

\* the report title: a str, plain or with markup Paragraph rejects (line 521)
ReportTitles == Titles \ {None}

\* lines 550-560: is section_data turned into a DataFrame?
IsFrame(sec) == sec.kind = "frame" \/ (sec.kind = "records" /\ sec.nrows > 0)

\* a cell of the section holds malformed markup: _paragraphize raises (line 585)
SectionRaises(sec) == sec.badRow # 0

\* the table of a section (lines 581-588): the header row and every row
SectionTable(sec) == TableOf(sec.columns, [r \in 1..sec.nrows |-> r])

\* lines 541-621: what one loop iteration appends for section number k of n
SectionElements(sec, k, n) ==
    <<Elem("heading", sec.title, 0), Spacer>> \o
    (IF sec.kind = "none" THEN <<Para("No data available"), Spacer>>
     ELSE IF ~IsFrame(sec) THEN <<Para("Invalid data format")>>
     ELSE IF sec.nrows = 0 \/ Len(sec.columns) = 0 THEN <<Para("No data available"), Spacer>>
     ELSE <<SectionTable(sec)>> \o (IF k < n THEN <<Spacer>> ELSE <<>>))

\* does the iteration reach the allocator and the table (line 572 on)?
SectionHasTable(sec) == IsFrame(sec) /\ sec.nrows > 0 /\ Len(sec.columns) > 0

RepRaise == rpc' = "done" /\ routcome' = "raised" /\ UNCHANGED <<rdoc, rpages>>

\* lines 470-531: font, document, main title and date line
RepBegin ==
    /\ rpc = "start"
    /\ REGISTERED_FONT_NAME' =
         StoreCache(REGISTERED_FONT_NAME,
                    ResolvedName(REGISTERED_FONT_NAME, fontFiles, corruptFonts))
    /\ registered' = registered \o Registrations(REGISTERED_FONT_NAME, fontFiles, corruptFonts)
    /\ IF MalformedMarkup(rtitle)
       THEN RepRaise /\ UNCHANGED relements
       ELSE /\ relements' = <<TitlePara(rtitle), Spacer, Para("Hijri Date"), Spacer>>
            /\ rpc' = IF Len(sections) > 0 THEN "sections" ELSE "build"
            /\ UNCHANGED <<routcome, rdoc, rpages>>
    /\ UNCHANGED <<rtitle, sections, renv, rsec, rplans>>
    /\ UNCHANGED <<fontFiles, corruptFonts, fontRet, firstRet, freshAtLast, calls>>
    /\ UNCHANGED <<pdfVars, widthVars, thrVars, shapeVars, pageVars, schedVars, mailVars>>

\* lines 534-621: one iteration of the section loop; an exception raised while
\* the table is built leaves the function, no handler encloses the loop
RepSection ==
    /\ rpc = "sections"
    /\ rsec < Len(sections)
    /\ LET sec == sections[rsec + 1] IN
        IF SectionHasTable(sec) /\ SectionRaises(sec)
        THEN /\ RepRaise
             /\ relements' = relements \o <<Elem("heading", sec.title, 0), Spacer>>
             /\ rplans' = Append(rplans, _auto_col_widths(DataStr(sec), RepAvail, {}))
             /\ UNCHANGED rsec
        ELSE /\ relements' = relements \o SectionElements(sec, rsec + 1, Len(sections))
             /\ rplans' = IF SectionHasTable(sec)
                           THEN Append(rplans, _auto_col_widths(DataStr(sec), RepAvail, {}))
                           ELSE rplans
             /\ rsec' = rsec + 1
             /\ rpc' = IF rsec' < Len(sections) THEN "sections" ELSE "build"
             /\ UNCHANGED <<routcome, rdoc, rpages>>
    /\ UNCHANGED <<rtitle, sections, renv>>
    /\ UNCHANGED <<fontVars, pdfVars, widthVars, thrVars, shapeVars, pageVars, schedVars, mailVars>>

\* lines 623-626: doc.build, outside any try
RepBuild ==
    /\ rpc = "build"
    /\ IF BuildFails(relements, renv)
       THEN RepRaise
       ELSE /\ rpc' = "done" /\ routcome' = "returned" /\ rdoc' = relements
            /\ rpages' = BuildPages(relements, OnPage, OnPage)
    /\ UNCHANGED <<rtitle, sections, renv, rsec, relements, rplans>>
    /\ UNCHANGED <<fontVars, pdfVars, widthVars, thrVars, shapeVars, pageVars, schedVars, mailVars>>

InitReport ==
    /\ REGISTERED_FONT_NAME = None
    /\ fontFiles = {FONT_CANDIDATES[3]} /\ corruptFonts = {}
    /\ registered = <<>> /\ fontRet = None /\ firstRet = None
    /\ freshAtLast = None /\ calls = 0
    /\ PdfIdle
    /\ wpc = "idle" /\ wData = <<>> /\ wAvail = 0 /\ wPrefer = {} /\ wPlan = <<>>
    /\ ThreadsIdle
    /\ ShapeIdle
    /\ rpc = "start"
    /\ rtitle \in ReportTitles
    /\ sections \in SectionLists
    /\ renv \in BuildFaults
    /\ rsec = 0 /\ relements = <<>> /\ rplans = <<>> /\ routcome = "none" /\ rdoc = <<>>
    /\ rpages = <<>>
    /\ PageIdle
    /\ SchedIdle
    /\ MailIdle

NextReport ==
    \/ RepBegin
    \/ RepSection
    \/ RepBuild

SpecReport == InitReport /\ [][NextReport]_vars

\* C3: create_landscape_report always returns a document: a failure while a
\* section's table is built or during the final build never reaches the caller.
C3_ReportNeverRaises ==
    /\ routcome # "raised"
    /\ (rpc = "done" => routcome = "returned" /\ Len(rdoc) > 0)

\* C7: in the single-dataset path and in the multi-section path, no table
\* handed to the build step holds more than chunk_size (100) data rows.
C7_NoTableOverChunkSize ==
    \A elems \in {elements, doc, relements, rdoc} :
        \A k \in 1..Len(elems) :
            elems[k].kind = "table" => Len(elems[k].rows) <= chunk_size

\* C18: the sections are processed in list order; each one appends its
\* heading first; an absent or empty dataset (None, an empty list of records,
\* an empty DataFrame) is followed by the "No data available" line and no
\* table, a non-empty dataset by its table.
C18_SectionsInOrder ==
    [][(rpc = "sections" /\ rsec' = rsec + 1) =>
        LET sec == sections[rsec + 1]
            added == SubSeq(relements', Len(relements) + 1, Len(relements'))
            isEmpty == sec.kind \in {"none", "emptylist"}
                        \/ (sec.kind = "frame" /\ sec.nrows = 0)
            nonEmpty == sec.kind \in {"records", "frame"} /\ sec.nrows > 0
        IN /\ added[1] = Elem("heading", sec.title, 0)
           /\ (isEmpty =>
                 /\ \E k \in 1..Len(added) : added[k] = Para("No data available")
                 /\ ~HasTable(added))
           /\ (nonEmpty =>
                 \E k \in 1..Len(added) :
                    added[k].kind = "table" /\ Len(added[k].rows) = sec.nrows)]_vars

(***************************************************************************)
(* Specifications                                                          *)
(***************************************************************************)
FontQuiet ==
    /\ fontFiles = {FONT_CANDIDATES[3]} /\ corruptFonts = {}
    /\ registered = <<>> /\ fontRet = None /\ firstRet = None
    /\ freshAtLast = None /\ calls = 0

RepIdle ==
    /\ rpc = "idle" /\ rtitle = None /\ sections = <<>> /\ renv = "none" /\ rsec = 0
    /\ relements = <<>> /\ rplans = <<>> /\ routcome = "none" /\ rdoc = <<>>
    /\ rpages = <<>>

WidthIdle ==
    /\ wpc = "idle" /\ wData = <<>> /\ wAvail = 0 /\ wPrefer = {} /\ wPlan = <<>>

\* one call of dataframe_to_pdf_bytes on any title and dataset
Init ==
    /\ REGISTERED_FONT_NAME = None
    /\ FontQuiet
    /\ pc = "start"
    /\ title \in Titles
    /\ df \in Datasets \cup DuplicateDatasets
    /\ env \in Envs
    /\ (env.noFrameMap => DuplicateColumns(df.columns))
    /\ font_name = None /\ elements = <<>> /\ rows = <<>> /\ col_widths = <<>>
    /\ i = 0 /\ degraded = FALSE /\ outcome = "none" /\ doc = <<>>
    /\ pages = <<>> /\ stamp = 0 /\ now = 0 /\ prev = <<>>
    /\ RepIdle
    /\ WidthIdle
    /\ ThreadsIdle
    /\ ShapeIdle
    /\ PageIdle
    /\ SchedIdle
    /\ MailIdle

Next ==
    \/ PdfBegin
    \/ PdfEmpty
    \/ PdfWidths
    \/ PdfChunk
    \/ PdfChunkExcept
    \/ PdfBuild
    \/ PdfBuildExcept

Spec == Init /\ [][Next]_vars

(***************************************************************************)
(* _ensure_font_registered called repeatedly, one call after the other,    *)
(* while candidate font files appear and disappear                         *)
(***************************************************************************)
InitFont ==
    /\ REGISTERED_FONT_NAME = None
    /\ fontFiles \in SUBSET CandidatePaths
    /\ corruptFonts \in SUBSET fontFiles
    /\ registered = <<>> /\ fontRet = None /\ firstRet = None
    /\ freshAtLast = None /\ calls = 0
    /\ PdfIdle
    /\ RepIdle
    /\ WidthIdle
    /\ ThreadsIdle
    /\ ShapeIdle
    /\ PageIdle
    /\ SchedIdle
    /\ MailIdle

\* lines 45-62, one whole call.  firstRet keeps the first name returned and
\* freshAtLast what the candidates on disk would give this call without the cache.
EnsureFontRegistered ==
    /\ calls < MaxCalls
    /\ fontRet' = ResolvedName(REGISTERED_FONT_NAME, fontFiles, corruptFonts)
    /\ REGISTERED_FONT_NAME' = StoreCache(REGISTERED_FONT_NAME, fontRet')
    /\ registered' = registered \o Registrations(REGISTERED_FONT_NAME, fontFiles, corruptFonts)
    /\ firstRet' = IF calls = 0 THEN fontRet' ELSE firstRet
    /\ freshAtLast' = ResolvedName(None, fontFiles, corruptFonts)
    /\ calls' = calls + 1
    /\ UNCHANGED <<fontFiles, corruptFonts>>
    /\ UNCHANGED <<pdfVars, repVars, widthVars, thrVars, shapeVars, pageVars, schedVars, mailVars>>

\* a candidate file is installed, loadable or not
FileAppears ==
    \E p \in CandidatePaths \ fontFiles, bad \in BOOLEAN :
        /\ fontFiles' = fontFiles \cup {p}
        /\ corruptFonts' = IF bad THEN corruptFonts \cup {p} ELSE corruptFonts
        /\ UNCHANGED <<REGISTERED_FONT_NAME, registered, fontRet, firstRet, freshAtLast, calls>>
        /\ UNCHANGED <<pdfVars, repVars, widthVars, thrVars, shapeVars, pageVars, schedVars, mailVars>>

\* a candidate file is removed
FileDisappears ==
    \E p \in fontFiles :
        /\ fontFiles' = fontFiles \ {p}
        /\ corruptFonts' = corruptFonts \ {p}
        /\ UNCHANGED <<REGISTERED_FONT_NAME, registered, fontRet, firstRet, freshAtLast, calls>>
        /\ UNCHANGED <<pdfVars, repVars, widthVars, thrVars, shapeVars, pageVars, schedVars, mailVars>>

NextFont ==
    \/ EnsureFontRegistered
    \/ FileAppears
    \/ FileDisappears

SpecFont == InitFont /\ [][NextFont]_vars

\* C10: _ensure_font_registered is idempotent: once a call has returned a
\* name, every later call returns that name and registers no font, whatever
\* has happened to the candidate files in between.
C10_ResolveIdempotent ==
    /\ [](calls >= 1 => fontRet = firstRet)
    /\ [][(calls >= 1 /\ calls' = calls + 1) =>
            (fontRet' = firstRet /\ registered' = registered)]_vars

\* a later call made when the candidates on disk would resolve to another font
C10_Witness ==
    /\ calls >= 2
    /\ freshAtLast # firstRet
    /\ fontRet = firstRet

InitThreads ==
    /\ REGISTERED_FONT_NAME = None
    /\ fontFiles \in SUBSET CandidatePaths
    /\ corruptFonts \in SUBSET fontFiles
    /\ registered = <<>> /\ fontRet = None /\ firstRet = None
    /\ freshAtLast = None /\ calls = 0
    /\ tpc = [t \in Threads |-> "check"]
    /\ tfound = [t \in Threads |-> None]
    /\ tret = [t \in Threads |-> None]
    /\ PdfIdle
    /\ RepIdle
    /\ WidthIdle
    /\ ShapeIdle
    /\ PageIdle
    /\ SchedIdle
    /\ MailIdle

NextThreads ==
    \/ \E t \in Threads : ThrCheck(t)
    \/ \E t \in Threads : ThrScan(t)
    \/ \E t \in Threads : ThrStore(t)
    \/ \E t \in Threads : ThrReturn(t)

SpecThreads == InitThreads /\ [][NextThreads]_vars

\* C12: over a fixed set of candidate files every concurrent call returns the
\* same name, whatever the interleaving; the cache holds that name and every
\* registration made is a registration of that same font.
C12_ConcurrentCallsAgree ==
    /\ \A t, u \in Threads :
          (tpc[t] = "done" /\ tpc[u] = "done") => tret[t] = tret[u]
    /\ \A t \in Threads :
          tpc[t] = "done" =>
            /\ tret[t] # None
            /\ REGISTERED_FONT_NAME = tret[t]
            /\ \A k \in 1..Len(registered) : registered[k] = tret[t]

\* two calls both passed the check of line 48 and both registered the font
C12_Witness ==
    /\ \A t \in Threads : tpc[t] = "done"
    /\ Len(registered) >= 2
    /\ tret[1] = "DejaVuSans"

(***************************************************************************)
(* Concurrent calls while candidate files appear and disappear             *)
(***************************************************************************)
NextRace ==
    \/ \E t \in Threads : ThrCheck(t)
    \/ \E t \in Threads : ThrScan(t)
    \/ \E t \in Threads : ThrStore(t)
    \/ \E t \in Threads : ThrReturn(t)
    \/ FileAppears
    \/ FileDisappears

SpecRace == InitThreads /\ [][NextRace]_vars

\* C13: once REGISTERED_FONT_NAME holds a name, no step of any call changes
\* it to another name.
C13_CacheNeverReplaced ==
    [][Truthy(REGISTERED_FONT_NAME) => REGISTERED_FONT_NAME' = REGISTERED_FONT_NAME]_vars

(***************************************************************************)
(* One cell from the dataset to its paragraph                              *)
(***************************************************************************)
InitShape ==
    /\ REGISTERED_FONT_NAME = None
    /\ FontQuiet
    /\ PdfIdle
    /\ RepIdle
    /\ WidthIdle
    /\ ThreadsIdle
    /\ spc = "raw"
    /\ sRaw \in RawValues
    /\ shaper \in Shapers
    /\ sValue = <<>> /\ sShaped = <<>> /\ sMeasured = <<>> /\ sCell = NoCell
    /\ PageIdle
    /\ SchedIdle
    /\ MailIdle

\* lines 187 and 564, then str(v) of line 86: the display string of the value
FillNaStr ==
    /\ spc = "raw"
    /\ sValue' = Str(Fillna(sRaw))
    /\ spc' = "value"
    /\ UNCHANGED <<sRaw, shaper, sShaped, sMeasured, sCell>>
    /\ UNCHANGED <<fontVars, pdfVars, repVars, widthVars, thrVars, pageVars, schedVars, mailVars>>

\* line 86 (and line 87 for a header): _shape_df_for_rtl shapes str(v)
ShapeDfCell ==
    /\ spc = "value"
    /\ sShaped' = _shape_if_rtl(sValue, shaper)
    /\ spc' = "shaped"
    /\ UNCHANGED <<sRaw, sValue, shaper, sMeasured, sCell>>
    /\ UNCHANGED <<fontVars, pdfVars, repVars, widthVars, thrVars, pageVars, schedVars, mailVars>>

\* lines 243-254 and 574-578: the cell of data_str that _auto_col_widths measures
MeasureCell ==
    /\ spc = "shaped"
    /\ sMeasured' = MeasuredText(sShaped)
    /\ spc' = "measured"
    /\ UNCHANGED <<sRaw, sValue, shaper, sShaped, sCell>>
    /\ UNCHANGED <<fontVars, pdfVars, repVars, widthVars, thrVars, pageVars, schedVars, mailVars>>

\* lines 257-259 and 582-585: the shaped cell is handed to _paragraphize
Paragraphize ==
    /\ spc = "measured"
    /\ sCell' = _paragraphize(sShaped, shaper)
    /\ spc' = "cell"
    /\ UNCHANGED <<sRaw, sValue, shaper, sShaped, sMeasured>>
    /\ UNCHANGED <<fontVars, pdfVars, repVars, widthVars, thrVars, pageVars, schedVars, mailVars>>

NextShape ==
    \/ FillNaStr
    \/ ShapeDfCell
    \/ MeasureCell
    \/ Paragraphize

SpecShape == InitShape /\ [][NextShape]_vars

\* C14: a cell whose value contains Arabic letters gets the right-aligned
\* style and a cell whose value contains none gets the left-aligned style,
\* with or without the shaping library.
C14_AlignmentPerCell ==
    spc = "cell" =>
        (sCell.style = "CellAR" <=> \E k \in 1..Len(sValue) : sValue[k] \in {Beh, Seen})

\* C15: _shape_if_rtl returns its input unchanged when the input holds no
\* right-to-left code point, when the shaping library is absent and when the
\* reshape/bidi step throws.
C15_UnchangedWithoutRtlOrShaper ==
    spc # "value" =>
        (((\A k \in 1..Len(sValue) : BidiClass(sValue[k]) # "AL")
            \/ shaper \in {"absent", "throws"})
         => sShaped = sValue)

\* Arabic text on which the shaping step throws
C15_Witness ==
    /\ spc = "shaped" /\ shaper = "throws"
    /\ sValue = <<Beh, Seen>> /\ sShaped = sValue

\* C16 as claimed: every input with right-to-left letters that join comes
\* back changed.
C16_ShapedDiffers ==
    (spc # "value" /\ \E k \in 1..Len(sValue) : sValue[k] \in {Beh, Seen, SyriacAlaph})
        => sShaped # sValue

\* C16 amended: when the shaping library is available and does not throw,
\* every input with an Arabic letter of U+0600-U+06FF comes back changed.
C16_ShapedDiffersWhenShaperRuns ==
    (spc # "value" /\ shaper = "ok" /\ \E k \in 1..Len(sValue) : sValue[k] \in {Beh, Seen})
        => sShaped # sValue

\* two joined letters: reshaped to their initial and final forms, then reordered
C16_Witness ==
    /\ spc = "shaped" /\ shaper = "ok"
    /\ sValue = <<Beh, Seen>>
    /\ sShaped = <<Cp("seen", "final"), Cp("beh", "initial")>>

\* C21: a null cell value (None, NaN) is the empty string in the text that
\* is measured and in the paragraph placed in the table; neither text is the
\* literal "None" or "nan".
C21_NullIsEmptyString ==
    sRaw \in Nulls =>
        /\ (spc \in {"measured", "cell"} => sMeasured = <<>>)
        /\ (spc = "cell" => sCell.text = <<>>)
        /\ sValue \notin {NoneLiteral, NanLiteral}
        /\ sMeasured \notin {NoneLiteral, NanLiteral}
        /\ sCell.text \notin {NoneLiteral, NanLiteral}

\* a NaN that reached the table as an empty left-aligned paragraph
C21_Witness ==
    /\ spc = "cell" /\ sRaw = Value("NaN", <<>>)
    /\ sMeasured = <<>> /\ sCell = [text |-> <<>>, style |-> "Cell"]

\* C22: the text of the cell's paragraph is shape(display string of the
\* value): the reshape-and-reorder step has acted on it once.
C22_ShapedExactlyOnce ==
    spc = "cell" => sCell.text = _shape_if_rtl(sValue, shaper)

(***************************************************************************)
(* One invocation of _on_page                                              *)
(***************************************************************************)
InitPage ==
    /\ REGISTERED_FONT_NAME = None
    /\ FontQuiet
    /\ PdfIdle
    /\ RepIdle
    /\ WidthIdle
    /\ ThreadsIdle
    /\ ShapeIdle
    /\ opc = "start"
    /\ oTitle \in {ShapedTitle(t) : t \in Titles}
    /\ oShowDate \in BOOLEAN
    /\ oHijri \in HijriLibs
    /\ oLogo \in Logos
    /\ oPage \in 1..MaxPageNo
    /\ oDate = "" /\ oCanvas = <<>> /\ oDepth = 0
    /\ SchedIdle
    /\ MailIdle

NextPage ==
    \/ OnPageBegin
    \/ OnPageHeader
    \/ OnPageLogo
    \/ OnPageFooter

SpecPage == InitPage /\ [][NextPage]_vars

\* the positions of an operation on the canvas
Drawn(op, text, n) == {k \in 1..Len(oCanvas) : oCanvas[k] = Draw(op, text, n)}

\* C27: every invocation of _on_page draws the header rule, the title, the
\* footer rule, the page number and the timestamp and ends with one
\* restoreState for its saveState, whatever the logo and the Hijri conversion
\* do; no logo or date failure leaves the callback.
C27_OnPageAlwaysCompletes ==
    /\ opc # "raised"
    /\ oDepth \in {0, 1}
    /\ opc = "done" =>
          /\ Cardinality(Drawn("line", "header", 0)) = 1
          /\ Cardinality(Drawn("drawCentredString", oTitle, 0)) >= 1
          /\ Cardinality(Drawn("line", "footer", 0)) = 1
          /\ Cardinality(Drawn("drawCentredString", "Page", oPage)) = 1
          /\ Cardinality(Drawn("drawString", "timestamp", 0)) = 1
          /\ oCanvas[1] = Draw("saveState", "", 0)
          /\ oCanvas[Len(oCanvas)] = Draw("restoreState", "", 0)
          /\ Cardinality(Drawn("saveState", "", 0)) = 1
          /\ Cardinality(Drawn("restoreState", "", 0)) = 1
          /\ oDepth = 0
          /\ (oLogo # "image" => Drawn("drawImage", "logo", 0) = {})

\* a page drawn in full although the logo file is no image and the Hijri
\* conversion failed: no image, the Gregorian date instead
C27_Witness ==
    /\ opc = "done" /\ oLogo = "unreadable" /\ oHijri = "convert_error" /\ oShowDate
    /\ oDepth = 0 /\ oPage = 2
    /\ Drawn("drawImage", "logo", 0) = {}
    /\ Drawn("drawRightString", "27-06-25", 0) # {}
    /\ Drawn("drawString", "timestamp", 0) # {}

(***************************************************************************)
(* _auto_col_widths called on its own                                      *)
(***************************************************************************)
\* stringWidth of header texts and of cell texts: "" measures 0
HeaderWidths == {0, 100}
CellWidths == {0, 310}

\* doc.width of portrait and of landscape A4 with 2 cm side margins (lines 194-204)
AVAIL_PORTRAIT == 481
AvailWidths == {AVAIL_PORTRAIT, AVAIL_LANDSCAPE}

\* [headers] + rows, rectangular, with n >= 1 columns and m data rows
WidthData(n, m) ==
    {<<h>> \o rs : h \in [1..n -> HeaderWidths], rs \in [1..m -> [1..n -> CellWidths]]}

\* a dataset of one column and m data rows around the sample limit: every
\* text is "" but the one of data row w (none when w = 0)
MinLongRows == SampleLimit - 2
LongData(m, w) ==
    [k \in 1..(m + 1) |-> <<IF w > 0 /\ k = w + 1 THEN 310 ELSE 0>>]

InitWidths ==
    /\ REGISTERED_FONT_NAME = None
    /\ FontQuiet
    /\ PdfIdle
    /\ RepIdle
    /\ wpc = "start"
    /\ \/ \E n \in 1..MaxWCols, m \in 0..MaxWRows : wData \in WidthData(n, m)
       \/ \E m \in MinLongRows..MaxLongRows : \E w \in 0..m : wData = LongData(m, w)
    /\ wAvail \in AvailWidths
    /\ wPrefer \in {{}} \cup {{k} : k \in -1..Len(wData[1])}
    /\ wPlan = <<>>
    /\ ThreadsIdle
    /\ ShapeIdle
    /\ PageIdle
    /\ SchedIdle
    /\ MailIdle

AllocateWidths ==
    /\ wpc = "start"
    /\ wPlan' = _auto_col_widths(wData, wAvail, wPrefer)
    /\ wpc' = "done"
    /\ UNCHANGED <<wData, wAvail, wPrefer>>
    /\ UNCHANGED <<fontVars, pdfVars, repVars, thrVars, shapeVars, pageVars, schedVars, mailVars>>

NextWidths == AllocateWidths

SpecWidths == InitWidths /\ [][NextWidths]_vars

\* C4: for every non-empty header row, sample rows and available width, the
\* plan has one width per column and the widths sum to the available width
\* (exactly, as fractions over the common denominator total).
C4_WidthsSumToAvailable ==
    wpc = "done" =>
        /\ Len(wPlan) = Len(wData[1])
        /\ \A c \in 1..Len(wPlan) : wPlan[c].den = wPlan[1].den /\ wPlan[c].den > 0
        /\ SumSeq([c \in 1..Len(wPlan) |-> wPlan[c].num]) = wAvail * wPlan[1].den

\* a plan of several columns that had to be scaled down
C4_Witness ==
    /\ wpc = "done" /\ Len(wPlan) = 3
    /\ wPlan[1].den > wAvail
    /\ wPlan[1].num # wPlan[2].num

\* C5 as claimed: every width of the plan, after scaling, is at least 40.
C5_EveryWidthAtLeastMin ==
    wpc = "done" => \A c \in 1..Len(wPlan) : wPlan[c].num >= MIN_W * wPlan[c].den

\* C5 amended: every width is at least 40 before scaling, so every width of the
\* plan is at least 40 * avail_width / total, and at least 40 whenever the
\* clamped widths sum to no more than the available width.
C5_WidthAtLeastScaledMin ==
    wpc = "done" =>
        \A c \in 1..Len(wPlan) :
            /\ wPlan[c].num >= MIN_W * wAvail
            /\ (wPlan[c].den <= wAvail => wPlan[c].num >= MIN_W * wPlan[c].den)

\* a landscape plan with a column narrower than 40 after scaling
C5_Witness ==
    /\ wpc = "done" /\ wAvail = AVAIL_LANDSCAPE
    /\ \E c \in 1..Len(wPlan) : wPlan[c].num < MIN_W * wPlan[c].den

\* C23: before scaling, each column's measured width (largest text width plus
\* 12) is clamped into [40, 240], the column at a valid prefer_wide_idx into
\* [40, 320]; at most one column is clamped with the 320 cap.
C23_ClampedBeforeScaling ==
    wpc = "done" =>
        LET num_cols == Len(wData[1])
            wide == {c \in 1..num_cols : wPrefer = {c - 1}}
            measured(c) == MaxColWidth(SampleRows(wData), c)
            clamped(c, hi) == Max(40, Min(hi, measured(c)))
        IN /\ Cardinality(wide) <= 1
           /\ \A c \in 1..num_cols :
                wPlan[c].num = wAvail * clamped(c, IF c \in wide THEN 320 ELSE 240)
           /\ \A c \in 1..num_cols : c \notin wide => wPlan[c].num <= 240 * wAvail

\* two columns of the same measured width 322: the preferred one is cut at 320,
\* the other at 240, and an empty third one is raised to 40
C23_Witness ==
    /\ wpc = "done" /\ Len(wPlan) >= 3 /\ wPrefer = {1}
    /\ Len(wData) = 2 /\ wData[2][1] = 310 /\ wData[2][2] = 310
    /\ wData[1][3] = 0 /\ wData[2][3] = 0
    /\ wPlan[2].num = 320 * wAvail
    /\ wPlan[1].num = 240 * wAvail
    /\ wPlan[3].num = 40 * wAvail

\* C24: the plan is the plan of the dataset cut after its 300th data row, so
\* datasets that agree on the header and the first 300 data rows get the same
\* plan; each column's measured width is the maximum over the header and the
\* first 300 data rows.
C24_PlanFromFirst300Rows ==
    wpc = "done" =>
        LET cut == SubSeq(wData, 1, Min(301, Len(wData)))
            widest(c) == CHOOSE m \in {cut[k][c] : k \in 1..Len(cut)} :
                             \A k \in 1..Len(cut) : cut[k][c] <= m
        IN /\ wPlan = _auto_col_widths(cut, wAvail, wPrefer)
           /\ \A c \in 1..Len(wPlan) :
                wPlan[c].num =
                    wAvail * Clamp(MaxWs(c, Len(wPlan), wPrefer), widest(c) + pad)

\* the only wide text sits in data row 301, outside the sample, and the plan
\* is the one of an all-empty column
C24_Witness ==
    /\ wpc = "done" /\ Len(wData) >= 302
    /\ wData[302][1] = 310
    /\ wPlan[1].num = MIN_W * wAvail

(***************************************************************************)
(* Properties of dataframe_to_pdf_bytes                                    *)
(***************************************************************************)
HasTitle(elems, t) == \E k \in 1..Len(elems) : elems[k] = TitlePara(ShapedTitle(t))

RECURSIVE ConcatRows(_)
ConcatRows(tables) ==
    IF tables = <<>> THEN <<>> ELSE Head(tables).rows \o ConcatRows(Tail(tables))

\* ceil(n / k)
CeilDiv(n, k) == (n + k - 1) \div k

\* C1: dataframe_to_pdf_bytes returns a non-empty document and never raises,
\* for every title and dataset, whichever step fails.
C1_NeverRaisesNonEmpty ==
    /\ outcome # "raised"
    /\ (outcome = "returned" => Len(doc) > 0)

\* C2: whenever a fallback path is taken, the returned document still carries
\* the document title and one plain line for every row of the dataset.
C2_FallbackKeepsTitleAndRows ==
    (outcome = "returned" /\ degraded) =>
        /\ HasTitle(doc, title)
        /\ \A r \in 1..df.nrows : \E k \in 1..Len(doc) : doc[k] = RowLine(r)

\* the batches of a completed chunk loop over n rows
BatchesOk(elems) ==
    LET t == Tables(elems)
        n == Len(rows)
    IN /\ Len(t) = CeilDiv(n, 100)
       /\ \A k \in 1..Len(t) - 1 : Len(t[k].rows) = 100
       /\ Len(t[Len(t)].rows) = n - 100 * (Len(t) - 1)
       /\ ConcatRows(t) = rows
       /\ \A k \in 1..Len(t) : t[k].header = df.columns

\* C6: a dataset of n > 0 rows is split into ceil(n/100) consecutive batches,
\* all of 100 rows but the last, which holds the remainder; concatenated in
\* order they are the original rows; each batch's table starts with the header.
C6_ChunksPartitionRows ==
    /\ (pc = "build" /\ ~degraded) => BatchesOk(elements)
    /\ (outcome = "returned" /\ ~degraded /\ Len(rows) > 0) => BatchesOk(doc)

C6_Witness ==
    /\ outcome = "returned" /\ ~degraded /\ Len(rows) = 201
    /\ Len(Tables(doc)) = 3
    /\ Len(Tables(doc)[1].rows) = 100
    /\ Len(Tables(doc)[2].rows) = 100
    /\ Tables(doc)[3].rows = <<201>>

\* the page breaks of a completed chunk loop
BreaksOk(elems) ==
    LET idx == {k \in 1..Len(elems) : elems[k].kind = "table"}
        breaks == {k \in 1..Len(elems) : elems[k] = PageBreak}
        last == CHOOSE k \in idx : \A j \in idx : j <= k
    IN idx # {} =>
        /\ \A k \in idx \ {last} :
              /\ elems[k + 1] = Spacer
              /\ elems[k + 2] = PageBreak
              /\ elems[k + 3].kind = "table"
        /\ Len(elems) = last + 1
        /\ elems[last + 1] = Spacer
        /\ Cardinality(breaks) = Cardinality(idx) - 1

\* C25: in the element sequence of dataframe_to_pdf_bytes every batch's table
\* but the last is followed (after its spacer) by exactly one page break, the
\* last by none; a dataset of at most 100 rows has no page break.
C25_BreakBetweenBatches ==
    /\ (pc = "build" /\ ~degraded) => BreaksOk(elements)
    /\ (outcome = "returned" /\ ~degraded) => BreaksOk(doc)
    /\ Len(rows) <= 100 =>
          /\ \A k \in 1..Len(elements) : elements[k] # PageBreak
          /\ \A k \in 1..Len(doc) : doc[k] # PageBreak

\* three batches, two page breaks, and the document ends with the spacer of
\* the last batch
C25_Witness ==
    /\ outcome = "returned" /\ ~degraded /\ Len(rows) = 201
    /\ Cardinality({k \in 1..Len(doc) : doc[k] = PageBreak}) = 2
    /\ doc[Len(doc)] = Spacer /\ doc[Len(doc) - 1].kind = "table"

\* the backgrounds of the batches of an element sequence
ShadesOk(elems) ==
    LET t == Tables(elems)
    IN /\ \A k \in 1..Len(t) :
            /\ Len(t[k].bg) = Len(t[k].rows) + 1
            /\ \A j \in 2..Len(t[k].bg) : t[k].bg[j] # t[k].bg[1]
            /\ \A j \in 2..(Len(t[k].bg) - 1) : t[k].bg[j] # t[k].bg[j + 1]
       /\ \A k \in 1..(Len(t) - 1) :
            Len(t[k + 1].rows) > 0 => t[k].bg[Len(t[k].bg)] # t[k + 1].bg[2]

\* C26: in every batch the header row has a background of its own, consecutive
\* data rows have different backgrounds, and so have the last data row of a
\* batch and the first data row of the next batch.
C26_ZebraRows ==
    ShadesOk(elements) /\ ShadesOk(doc)

\* a full batch ends on the even shade and the next starts on the odd one
C26_Witness ==
    /\ outcome = "returned" /\ ~degraded /\ Len(rows) = 201
    /\ Tables(doc)[1].bg[1] = "#003366"
    /\ Tables(doc)[1].bg[101] = "#f8f9fa"
    /\ Tables(doc)[2].bg[2] = "#e9ecef"
    /\ Tables(doc)[2].bg[3] = "#f8f9fa"

\* C8: degraded is final: once the element list has been replaced by fallback
\* content no table is added again, and the returned document holds no table.
C8_DegradedIsFinal ==
    /\ [](degraded => (~HasTable(elements) /\ ~HasTable(doc)))
    /\ [][degraded => degraded']_vars

\* a table had been built before the handler dropped it
C8_Witness == degraded /\ outcome = "returned" /\ i >= chunk_size

\* C9: for an absent or empty dataset (None, zero rows, zero columns) the width
\* allocator is never called and no table is built; the returned document is
\* the title followed by the "No data available" line.
C9_EmptyDatasetPlaceholder ==
    (~df.present \/ df.nrows = 0 \/ Len(df.columns) = 0) =>
        /\ col_widths = <<>>
        /\ ~HasTable(elements)
        /\ (outcome = "returned" =>
                doc = <<TitlePara(ShapedTitle(title)), Spacer, Para("No data available")>>)

C9_Witness ==
    /\ outcome = "returned" /\ df.present
    /\ Len(df.columns) = 0 /\ df.nrows > 0
    /\ doc[3] = Para("No data available")

\* C17: in every document returned, by dataframe_to_pdf_bytes and by
\* create_landscape_report, the page decorator has run exactly once on each
\* page, the first and the later ones.
C17_EveryPageDecoratedOnce ==
    /\ (outcome = "returned" =>
            Len(pages) >= 1 /\ \A k \in 1..Len(pages) : pages[k] = 1)
    /\ (routcome = "returned" =>
            Len(rpages) >= 1 /\ \A k \in 1..Len(rpages) : rpages[k] = 1)

\* C19: a dataset whose columns repeat a name makes the call raise before the
\* font is resolved, a width computed or an element built; no document comes
\* back for it.
C19_ContractViolationRaisesFirst ==
    (DuplicateColumns(df.columns) /\ pc # "start") =>
        /\ outcome \in {"none", "raised"}
        /\ (pc = "done" => outcome = "raised")
        /\ font_name = None /\ REGISTERED_FONT_NAME = None
        /\ col_widths = <<>> /\ elements = <<>> /\ doc = <<>>

(***************************************************************************)
(* Two calls of dataframe_to_pdf_bytes on the same title and dataset       *)
(***************************************************************************)
\* what a call hands back: an exception, or the document with the font it
\* embeds, its width plan, its pages and its creation date
Output ==
    IF outcome = "returned"
    THEN [outcome |-> outcome, doc |-> doc, font |-> font_name, widths |-> col_widths,
          pages |-> pages, stamp |-> stamp]
    ELSE [outcome |-> outcome, doc |-> <<>>, font |-> None, widths |-> <<>>,
          pages |-> <<>>, stamp |-> 0]

InitTwice ==
    /\ REGISTERED_FONT_NAME \in {None, "Helvetica"}
    /\ FontQuiet
    /\ pc = "start"
    /\ title \in Titles
    /\ df \in {d \in Datasets : d.nrows <= 2}
    /\ env \in {e \in Envs : ~e.noFrameMap}
    /\ font_name = None /\ elements = <<>> /\ rows = <<>> /\ col_widths = <<>>
    /\ i = 0 /\ degraded = FALSE /\ outcome = "none" /\ doc = <<>>
    /\ pages = <<>> /\ stamp = 0 /\ now = 0 /\ prev = <<>>
    /\ RepIdle
    /\ WidthIdle
    /\ ThreadsIdle
    /\ ShapeIdle
    /\ PageIdle
    /\ SchedIdle
    /\ MailIdle

\* the wall clock moves on
Tick ==
    /\ now < MaxClock
    /\ now' = now + 1
    /\ UNCHANGED <<pc, title, df, env, font_name, elements, rows, col_widths, i, degraded,
                   outcome, doc, pages, stamp, prev>>
    /\ UNCHANGED <<fontVars, repVars, widthVars, thrVars, shapeVars, pageVars, schedVars, mailVars>>

\* the process is restarted between the calls: line 42 runs again
ProcessRestart ==
    /\ pc = "done" /\ prev = <<>>
    /\ Truthy(REGISTERED_FONT_NAME)
    /\ REGISTERED_FONT_NAME' = None
    /\ registered' = <<>>
    /\ UNCHANGED <<fontFiles, corruptFonts, fontRet, firstRet, freshAtLast, calls>>
    /\ UNCHANGED <<pdfVars, repVars, widthVars, thrVars, shapeVars, pageVars, schedVars, mailVars>>

\* the caller keeps the first result and calls again with the same arguments
PdfAgain ==
    /\ pc = "done" /\ prev = <<>>
    /\ prev' = <<Output>>
    /\ pc' = "start"
    /\ font_name' = None /\ elements' = <<>> /\ rows' = <<>> /\ col_widths' = <<>>
    /\ i' = 0 /\ degraded' = FALSE /\ outcome' = "none" /\ doc' = <<>>
    /\ pages' = <<>> /\ stamp' = 0
    /\ UNCHANGED <<title, df, env, now>>
    /\ UNCHANGED <<fontVars, repVars, widthVars, thrVars, shapeVars, pageVars, schedVars, mailVars>>

NextTwice ==
    \/ PdfBegin
    \/ PdfEmpty
    \/ PdfWidths
    \/ PdfChunk
    \/ PdfChunkExcept
    \/ PdfBuild
    \/ PdfBuildExcept
    \/ Tick
    \/ ProcessRestart
    \/ PdfAgain

SpecTwice == InitTwice /\ [][NextTwice]_vars

\* C20: for a fixed title and dataset the second call hands back what the
\* first one did, whatever the font cache held before each call and whatever
\* the time of each call.
C20_SecondCallIdentical ==
    (pc = "done" /\ prev # <<>>) => prev = <<Output>>

(***************************************************************************)
(* Concurrent calls of register_scheduler and save_email_settings          *)
(***************************************************************************)
\* what the other components are while the scheduler runs
ExportsIdle ==
    /\ REGISTERED_FONT_NAME = None
    /\ FontQuiet
    /\ PdfIdle
    /\ RepIdle
    /\ WidthIdle
    /\ ThreadsIdle
    /\ ShapeIdle
    /\ PageIdle

\* a fresh process, or one whose scheduler runs the job of the stored row
SchedulerAtRest ==
    \/ jobs = <<>> /\ started = FALSE
    \/ jobs = <<CronTrigger(_get_email_settings(db))>> /\ started = TRUE

\* two settings an admin may submit
RaceForms == {Row("monthly", "mon", 15, 17, 30), Row("weekly", "fri", 1, 6, 45)}

InitSched ==
    /\ ExportsIdle
    /\ db \in {<<>>} \cup {<<FormRow(f)>> : f \in RaceForms}
    /\ SchedulerAtRest
    /\ cpc = [c \in Callers |-> "start"]
    /\ ckind \in [Callers -> {"register", "save"}]
    /\ cform \in [Callers -> RaceForms \cup {NoForm}]
    /\ \A c \in Callers : ckind[c] = "save" <=> cform[c] # NoForm
    \* register_scheduler runs at start-up, before any request is served
    /\ started \/ \E c \in Callers : ckind[c] = "register"
    /\ csettings = [c \in Callers |-> NoForm]
    /\ MailIdle

NextSched ==
    \E c \in Callers :
        \/ SaveEmailSettings(c)
        \/ GetEmailSettings(c)
        \/ GetJob(c)
        \/ RemoveJob(c)
        \/ AddJob(c)
        \/ StartScheduler(c)

SpecSched == InitSched /\ [][NextSched]_vars

\* the value a stored column stands for: its default only when it is missing
Stored(v, default) == IF v = Null THEN default ELSE v
\* the trigger the stored email_settings row describes
StoredTrigger(table) ==
    IF table = <<>> THEN Trigger("*", 1, 8, 0)
    ELSE CASE table[1].frequency = "daily" ->
                 Trigger("*", 0, Stored(table[1].send_hour, 8), Stored(table[1].send_minute, 0))
           [] table[1].frequency = "weekly" ->
                 Trigger(IF table[1].day_of_week = None THEN "mon" ELSE table[1].day_of_week, 0,
                         Stored(table[1].send_hour, 8), Stored(table[1].send_minute, 0))
           [] OTHER ->
                 Trigger("*", Stored(table[1].day_of_month, 1),
                         Stored(table[1].send_hour, 8), Stored(table[1].send_minute, 0))

\* C28: once every call of register_scheduler and reload_scheduler has
\* finished, the scheduler holds exactly one job "library-report-job" and its
\* trigger is the one of the email_settings row stored in the database.
C28_OneJobMatchingStoredRow ==
    (\A c \in Callers : cpc[c] \in {"done", "failed"}) =>
        /\ Len(jobs) = 1
        /\ jobs[1] = StoredTrigger(db)

(***************************************************************************)
(* One call of register_scheduler or save_email_settings over every hour   *)
(***************************************************************************)
Hours == 0..23
Minutes == {0, 30, 59}
DaysOfMonth == {1, 15, 31}
\* the rows the table can hold (frequency is NOT NULL and CHECKed)
StoredRows ==
    {Row(f, w, d, h, m) : f \in Frequencies, w \in {"fri", None},
                          d \in DaysOfMonth \cup {Null}, h \in Hours \cup {Null},
                          m \in Minutes \cup {Null}}
\* the forms a request may carry
TriggerForms ==
    {Row(f, w, d, h, m) : f \in Frequencies \cup {None}, w \in {"fri", None},
                          d \in DaysOfMonth \cup {Null}, h \in Hours \cup {Null},
                          m \in Minutes \cup {Null}} \ {NoForm}

InitTrigger ==
    /\ ExportsIdle
    /\ \E kind \in {"register", "save"} :
        /\ ckind = [c \in Callers |-> IF c = 1 THEN kind ELSE "none"]
        /\ IF kind = "save"
           THEN /\ db = <<>>
                /\ \E f \in TriggerForms : cform = [c \in Callers |-> IF c = 1 THEN f ELSE NoForm]
           ELSE /\ db \in {<<>>} \cup {<<r>> : r \in StoredRows}
                /\ cform = [c \in Callers |-> NoForm]
    /\ SchedulerAtRest
    /\ started \/ ckind[1] = "register"
    /\ cpc = [c \in Callers |-> IF c = 1 THEN "start" ELSE "idle"]
    /\ csettings = [c \in Callers |-> NoForm]
    /\ MailIdle

SpecTrigger == InitTrigger /\ [][NextSched]_vars

\* C29: the registered job fires at the hour, the minute and (for a monthly
\* report) the day of month stored in email_settings, for every stored hour of
\* 0..23; a default (8, 0, 1) stands in only for a missing value.
C29_TriggerIsStoredTime ==
    (cpc[1] = "done" /\ db # <<>>) =>
        /\ Len(jobs) = 1
        /\ jobs[1].hour = Stored(db[1].send_hour, 8)
        /\ jobs[1].minute = Stored(db[1].send_minute, 0)
        /\ (db[1].frequency = "monthly" => jobs[1].day = Stored(db[1].day_of_month, 1))

(***************************************************************************)
(* One run of send_all_reports                                             *)
(***************************************************************************)
InitMail ==
    /\ ExportsIdle
    /\ SchedIdle
    /\ mpc = "classes"
    /\ mClasses \in EntryLists
    /\ mDepts \in EntryLists
    /\ mk = 0 /\ mProcessed = <<>> /\ mAttempts = <<>> /\ mDelivered = <<>>

NextMail ==
    \/ SendClassReport
    \/ ClassReportsDone
    \/ SendDepartmentReport
    \/ DepartmentReportsDone

SpecMail == InitMail /\ [][NextMail]_vars

\* the entry of an item
EntryOf(it) == IF it.list = "class" THEN mClasses[it.k] ELSE mDepts[it.k]
Items ==
    {Item("class", k) : k \in 1..Len(mClasses)} \cup {Item("department", k) : k \in 1..Len(mDepts)}
InSeq(x, seq) == \E n \in 1..Len(seq) : seq[n] = x

\* C30: a PDF that fails to build and an email that fails to send affect only
\* their own entry: the run never stops early, every class and department is
\* processed once, an email is attempted for exactly the entries that have an
\* address and PDF bytes, and delivered for those whose send succeeds.
C30_FailuresStayLocal ==
    /\ mpc # "raised"
    /\ \A n \in 1..Len(mAttempts) :
          /\ EntryOf(mAttempts[n]).email \notin {None, ""}
          /\ EntryOf(mAttempts[n]).pdf = "bytes"
    /\ mpc = "done" =>
          /\ Len(mProcessed) = Len(mClasses) + Len(mDepts)
          /\ \A it \in Items :
                /\ InSeq(it, mProcessed)
                /\ InSeq(it, mAttempts) <=>
                      (EntryOf(it).email \notin {None, ""} /\ EntryOf(it).pdf = "bytes")
                /\ InSeq(it, mDelivered) <=>
                      (InSeq(it, mAttempts) /\ EntryOf(it).send = "ok")

\* a class whose PDF raises and a department whose send fails, each followed
\* by an entry that is delivered
C30_Witness ==
    /\ mpc = "done"
    /\ Len(mClasses) = 2 /\ mClasses[1].pdf = "raises" /\ mClasses[1].email = "head@school"
    /\ Len(mDepts) = 2 /\ mDepts[1].send = "fails" /\ mDepts[1].pdf = "bytes"
    /\ mDepts[1].email = "head@school"
    /\ mAttempts = <<Item("class", 2), Item("department", 1), Item("department", 2)>>
    /\ mDelivered = <<Item("class", 2), Item("department", 2)>>

====
